---- MODULE Spec2Model ----
(***************************************************************************)
(* Model of the birdie application: the PostForm validator, the Post       *)
(* update view, the login-protected admin view and the payment view.       *)
(*                                                                         *)
(* Text is modelled as a sequence of one-character strings, so that length *)
(* and whitespace trimming are computed and not assumed.                   *)
(***************************************************************************)
EXTENDS Integers, Sequences, FiniteSets, TLC

VARIABLES store, resp, charges, outbox, okPayments, reqs, raw, result

vars == <<store, resp, charges, outbox, okPayments, reqs, raw, result>>

(***************************************************************************)
(* Text                                                                    *)
(***************************************************************************)
\* Longest text drawn as validator input.
MaxLen == 8

Letter == "a"
Space == " "
Chars == {Letter, Space}
Whitespace == {Space}

Strings == UNION {[1..n -> Chars] : n \in 0..MaxLen}

EmptyText == <<>>

RECURSIVE lstrip(_)
lstrip(s) ==
    IF s # <<>> /\ Head(s) \in Whitespace THEN lstrip(Tail(s)) ELSE s

RECURSIVE rstrip(_)
rstrip(s) ==
    IF s # <<>> /\ s[Len(s)] \in Whitespace
    THEN rstrip(SubSeq(s, 1, Len(s) - 1))
    ELSE s

\* str.strip(), applied by the form field that ModelForm builds for
\* Post.body (a CharField keeps its default strip=True).
strip(s) == rstrip(lstrip(s))

(***************************************************************************)
(* PostForm                                                                *)
(***************************************************************************)
\* Submitted form data: a dict that may or may not carry the key 'body'.
NoData == [has |-> FALSE, body |-> EmptyText]
Data(s) == [has |-> TRUE, body |-> s]

\* The 'body' form field: a missing key reads as None, None and '' are
\* empty values, other text is stripped; a required field rejects empty.
to_python(data) == IF data.has THEN strip(data.body) ELSE EmptyText

MinLength == 5

clean_body_off_by_one(data) ==
    IF Len(data) < MinLength
    THEN [ok |-> FALSE, value |-> EmptyText, error |-> "Message is too short"]
    ELSE [ok |-> TRUE, value |-> data, error |-> ""]

clean_body(data) ==
    IF Len(data) <= MinLength
    THEN [ok |-> FALSE, value |-> EmptyText, error |-> "Message is too short"]
    ELSE [ok |-> TRUE, value |-> data, error |-> ""]

\* Form.full_clean for the single field 'body': the field's own cleaning
\* first, clean_body only when that succeeded.
full_clean(data) ==
    LET value == to_python(data) IN
    IF value = EmptyText
    THEN [done |-> TRUE, valid |-> FALSE, errors |-> {"body"},
          message |-> "This field is required.", cleaned |-> EmptyText]
    ELSE LET r == clean_body(value) IN
         IF r.ok
         THEN [done |-> TRUE, valid |-> TRUE, errors |-> {},
               message |-> "", cleaned |-> r.value]
         ELSE [done |-> TRUE, valid |-> FALSE, errors |-> {"body"},
               message |-> r.error, cleaned |-> EmptyText]

NotValidated == [done |-> FALSE, valid |-> FALSE, errors |-> {},
                 message |-> "", cleaned |-> EmptyText]

(***************************************************************************)
(* Users, posts and responses                                              *)
(***************************************************************************)
\* AnonymousUser has no first_name attribute; auth.User always has one.
AnonymousUser == [is_authenticated |-> FALSE, has_first_name |-> FALSE,
                  first_name |-> ""]
UserMartin == [is_authenticated |-> TRUE, has_first_name |-> TRUE,
               first_name |-> "Martin"]
UserAlice == [is_authenticated |-> TRUE, has_first_name |-> TRUE,
              first_name |-> "Alice"]
Users == {AnonymousUser, UserMartin, UserAlice}

\* Post rows present in the table, and the primary keys a URL may carry.
ExistingPks == {1, 2}
Pks == ExistingPks \cup {3}

Hello == <<"H", "e", "l", "l", "o">>
HelloWorld == Hello \o <<" ", "W", "o", "r", "l", "d">>
NewBodyText ==
    <<"N", "e", "w", " ", "B", "o", "d", "y", " ", "T", "e", "x", "t", "!">>
SixSpaces == <<" ", " ", " ", " ", " ", " ">>

\* Bodies of rows created outside the update view (never validated).
Seeds == {EmptyText, Hello \o <<"!">>}

\* Bodies submitted to the update view.
Bodies == {EmptyText, Hello, Hello \o <<" ">>, SixSpaces, NewBodyText,
           <<" ">> \o HelloWorld \o <<" ">>}
PostData == {NoData} \cup {Data(b) : b \in Bodies}

\* The payment collaborators' part in a request: the submitted token, what
\* stripe.Charge.create did (returned a charge with an id, or raised) and
\* whether send_mail delivered (or raised).
NoCharge == [ok |-> FALSE, id |-> EmptyText]
NoEnv == [token |-> NoData, charge |-> NoCharge, sent |-> FALSE]

\* What a view call ends in: a response (outcome "response", with its status
\* and redirect location) or a raised exception (outcome "Http404", "error").
\* before is the table as it was when the request arrived.
Response(view, method, user, pk, data, outcome, status, loc, errs, init, bef) ==
    [view |-> view, method |-> method, user |-> user, pk |-> pk,
     data |-> data, outcome |-> outcome, status |-> status,
     location |-> loc, errors |-> errs, initial |-> init,
     before |-> bef, env |-> NoEnv]

NoResponse == Response("none", "", AnonymousUser, 0, NoData, "none", 0, "",
                       {}, EmptyText, <<>>)

InitCommon ==
    /\ resp = NoResponse
    /\ charges = <<>>
    /\ outbox = <<>>
    /\ okPayments = 0
    /\ reqs = <<>>

(***************************************************************************)
(* The validator on its own: PostForm(data=...).is_valid()                 *)
(***************************************************************************)
FormInputs == {NoData} \cup {Data(s) : s \in Strings}

InitForm ==
    /\ InitCommon
    /\ store = <<>>
    /\ raw \in FormInputs
    /\ result = NotValidated

is_valid ==
    /\ ~result.done
    /\ result' = full_clean(raw)
    /\ UNCHANGED <<store, resp, charges, outbox, okPayments, reqs, raw>>

NextForm == is_valid

SpecForm == InitForm /\ [][NextForm]_vars

\* s is t without its leading and trailing whitespace.
IsTrimOf(s, t) ==
    /\ \E i \in 0..Len(t) : \E j \in i..Len(t) :
          /\ s = SubSeq(t, i + 1, j)
          /\ \A k \in 1..i : t[k] \in Whitespace
          /\ \A k \in (j + 1)..Len(t) : t[k] \in Whitespace
    /\ s # <<>> => (s[1] \notin Whitespace /\ s[Len(s)] \notin Whitespace)

\* C4 as stated: the validator accepts s exactly when length(s) > 5, a
\* rejected input carries an error on 'body', and an accepted input is
\* returned unchanged.
C4_AsStated ==
    result.done =>
        /\ result.valid <=> (raw.has /\ Len(raw.body) > 5)
        /\ ~result.valid => "body" \in result.errors
        /\ result.valid => result.cleaned = raw.body

\* C4 (amended): the validator accepts s exactly when s without its leading
\* and trailing whitespace is longer than 5 characters; a rejected input
\* (missing and empty included) carries an error on 'body'; the cleaned value
\* of an accepted input is s without its leading and trailing whitespace.
C4_Validator ==
    result.done =>
        /\ result.valid <=>
              (raw.has /\ \E s \in Strings :
                             IsTrimOf(s, raw.body) /\ Len(s) > 5)
        /\ ~result.valid => ("body" \in result.errors /\ result.cleaned = <<>>)
        /\ result.valid =>
              (result.errors = {} /\ IsTrimOf(result.cleaned, raw.body))

C4_Witness ==
    /\ result.done /\ result.valid
    /\ Len(raw.body) = Len(result.cleaned) + 2

(***************************************************************************)
(* AdminView and PostUpdateView, one request at a time                     *)
(***************************************************************************)
Methods == {"GET", "POST"}

LoginUrl == "/accounts/login/?next=/"
success_url == "/"

\* login_required around TemplateView.dispatch; TemplateView handles GET only
\* and answers any other method with 405.
AdminView_dispatch_no_login(user, method, st) ==
    IF method = "GET"
    THEN Response("AdminView", method, user, 0, NoData, "response", 200,
                  "", {}, EmptyText, st)
    ELSE Response("AdminView", method, user, 0, NoData, "response", 405,
                  "", {}, EmptyText, st)

AdminView_dispatch(user, method, st) ==
    IF ~user.is_authenticated
    THEN Response("AdminView", method, user, 0, NoData, "response", 302,
                  LoginUrl, {}, EmptyText, st)
    ELSE IF method = "GET"
    THEN Response("AdminView", method, user, 0, NoData, "response", 200,
                  "", {}, EmptyText, st)
    ELSE Response("AdminView", method, user, 0, NoData, "response", 405,
                  "", {}, EmptyText, st)

\* getattr(request.user, 'first_name', None) == 'Martin'
first_name_is_Martin_inverted(user) ==
    ~(user.has_first_name /\ user.first_name = "Martin")

first_name_is_Martin(user) ==
    user.has_first_name /\ user.first_name = "Martin"

\* UpdateView.get: get_object (Http404 when the row is absent), then the
\* form rendered from the instance.
PostUpdateView_get_guarded(user, pk, st) ==
    IF first_name_is_Martin(user) \/ pk \notin DOMAIN st
    THEN [resp |-> Response("PostUpdateView", "GET", user, pk, NoData,
                            "Http404", 404, "", {}, EmptyText, st),
          store |-> st]
    ELSE [resp |-> Response("PostUpdateView", "GET", user, pk, NoData,
                            "response", 200, "", {}, st[pk], st),
          store |-> st]

PostUpdateView_get(user, pk, st) ==
    IF pk \notin DOMAIN st
    THEN [resp |-> Response("PostUpdateView", "GET", user, pk, NoData,
                            "Http404", 404, "", {}, EmptyText, st),
          store |-> st]
    ELSE [resp |-> Response("PostUpdateView", "GET", user, pk, NoData,
                            "response", 200, "", {}, st[pk], st),
          store |-> st]

\* PostUpdateView.post: the name check, then UpdateView.post: get_object,
\* the form bound to the submitted data, form_valid (save and redirect to
\* success_url) or form_invalid (the form rendered again with its errors).
PostUpdateView_post_save_raw(user, pk, data, st) ==
    IF first_name_is_Martin(user) \/ pk \notin DOMAIN st
    THEN [resp |-> Response("PostUpdateView", "POST", user, pk, data,
                            "Http404", 404, "", {}, EmptyText, st),
          store |-> st]
    ELSE LET form == full_clean(data) IN
         IF form.valid
         THEN [resp |-> Response("PostUpdateView", "POST", user, pk, data,
                                 "response", 302, success_url, {},
                                 EmptyText, st),
               store |-> [st EXCEPT ![pk] = data.body]]
         ELSE [resp |-> Response("PostUpdateView", "POST", user, pk, data,
                                 "response", 200, "", form.errors,
                                 data.body, st),
               store |-> st]

PostUpdateView_post(user, pk, data, st) ==
    IF first_name_is_Martin(user)
    THEN [resp |-> Response("PostUpdateView", "POST", user, pk, data,
                            "Http404", 404, "", {}, EmptyText, st),
          store |-> st]
    ELSE IF pk \notin DOMAIN st
    THEN [resp |-> Response("PostUpdateView", "POST", user, pk, data,
                            "Http404", 404, "", {}, EmptyText, st),
          store |-> st]
    ELSE LET form == full_clean(data) IN
         IF form.valid
         THEN [resp |-> Response("PostUpdateView", "POST", user, pk, data,
                                 "response", 302, success_url, {},
                                 EmptyText, st),
               store |-> [st EXCEPT ![pk] = form.cleaned]]
         ELSE [resp |-> Response("PostUpdateView", "POST", user, pk, data,
                                 "response", 200, "", form.errors,
                                 data.body, st),
               store |-> st]

Init ==
    /\ InitCommon
    /\ store \in [ExistingPks -> Seeds]
    /\ raw = NoData
    /\ result = NotValidated

AdminRequest ==
    \E user \in Users, method \in Methods :
        /\ resp' = AdminView_dispatch(user, method, store)
        /\ UNCHANGED <<store, charges, outbox, okPayments, reqs, raw, result>>

UpdateGet ==
    \E user \in Users, pk \in Pks :
        LET r == PostUpdateView_get(user, pk, store) IN
        /\ resp' = r.resp
        /\ store' = r.store
        /\ UNCHANGED <<charges, outbox, okPayments, reqs, raw, result>>

UpdatePost ==
    \E user \in Users, pk \in Pks, data \in PostData :
        LET r == PostUpdateView_post(user, pk, data, store) IN
        /\ resp' = r.resp
        /\ store' = r.store
        /\ UNCHANGED <<charges, outbox, okPayments, reqs, raw, result>>

Next == AdminRequest \/ UpdateGet \/ UpdatePost

Spec == Init /\ [][Next]_vars

(***************************************************************************)
(* Properties of the update and admin views                                *)
(***************************************************************************)
IsUpdatePost == resp.view = "PostUpdateView" /\ resp.method = "POST"
IsUpdateGet == resp.view = "PostUpdateView" /\ resp.method = "GET"
NamedMartin(user) == user.has_first_name /\ user.first_name = "Martin"

\* C1: a submit by a requester whose first_name is "Martin" ends in Http404
\* whatever the submitted body, never in a redirect or a re-rendered form,
\* and leaves every stored body as it was.
C1_MartinNotFound ==
    (IsUpdatePost /\ NamedMartin(resp.user)) =>
        /\ resp.outcome = "Http404"
        /\ resp.status \notin {200, 302}
        /\ store = resp.before

C1_Witness ==
    /\ IsUpdatePost /\ NamedMartin(resp.user)
    /\ resp.pk \in ExistingPks
    /\ resp.data = Data(NewBodyText)
    /\ resp.outcome = "Http404"

\* C2 as stated: an accepted submit by a requester not named "Martin" to an
\* existing Post stores exactly the submitted body and redirects to '/'.
C2_AsStated ==
    (/\ IsUpdatePost /\ ~NamedMartin(resp.user)
     /\ resp.pk \in ExistingPks /\ full_clean(resp.data).valid) =>
        /\ store[resp.pk] = resp.data.body
        /\ resp.status = 302 /\ resp.location = "/"

\* C2 (amended): an accepted submit by a requester not named "Martin"
\* (an unauthenticated one included) to an existing Post stores the submitted
\* body without its leading and trailing whitespace as that Post's body,
\* leaves the other Posts alone and redirects (302) to '/'.
C2_ValidSubmit ==
    (/\ IsUpdatePost /\ ~NamedMartin(resp.user)
     /\ resp.pk \in ExistingPks /\ full_clean(resp.data).valid) =>
        /\ IsTrimOf(store[resp.pk], resp.data.body)
        /\ \A p \in ExistingPks \ {resp.pk} : store[p] = resp.before[p]
        /\ resp.outcome = "response"
        /\ resp.status = 302 /\ resp.location = "/"

C2_Witness ==
    /\ IsUpdatePost /\ resp.user = AnonymousUser
    /\ resp.pk \in ExistingPks
    /\ resp.data = Data(<<" ">> \o HelloWorld \o <<" ">>)
    /\ store[resp.pk] = HelloWorld
    /\ resp.before[resp.pk] # HelloWorld
    /\ resp.status = 302

\* C3: a submit of a missing body or of a body of at most 5 characters by a
\* requester not named "Martin" to an existing Post is answered with the form
\* rendered again (200, no redirect) with an error on 'body', and no stored
\* body changes.
C3_ShortSubmit ==
    (/\ IsUpdatePost /\ ~NamedMartin(resp.user)
     /\ resp.pk \in ExistingPks
     /\ (~resp.data.has \/ Len(resp.data.body) <= 5)) =>
        /\ resp.outcome = "response"
        /\ resp.status = 200 /\ resp.location = ""
        /\ "body" \in resp.errors
        /\ store = resp.before

C3_Witness ==
    /\ IsUpdatePost /\ ~NamedMartin(resp.user)
    /\ resp.pk \in ExistingPks
    /\ resp.data = Data(Hello)
    /\ resp.status = 200 /\ "body" \in resp.errors

\* C6: a GET of the update view for an existing Post is answered, for every
\* requester ("Martin" and an unauthenticated one included), with status 200
\* and the form filled with the current body, and no stored body changes.
C6_GetUnguarded ==
    (IsUpdateGet /\ resp.pk \in ExistingPks) =>
        /\ resp.outcome = "response"
        /\ resp.status = 200
        /\ resp.initial = resp.before[resp.pk]
        /\ store = resp.before

C6_Witness ==
    /\ IsUpdateGet /\ NamedMartin(resp.user)
    /\ resp.pk \in ExistingPks
    /\ resp.status = 200
    /\ resp.initial = NewBodyText

\* C7 as stated: every request of an unauthenticated requester to the admin
\* view is redirected to the login location, and every request of an
\* authenticated requester is answered with status 200.
C7_AsStated ==
    resp.view = "AdminView" =>
        /\ ~resp.user.is_authenticated =>
              (resp.status = 302 /\ resp.location = LoginUrl)
        /\ resp.user.is_authenticated => resp.status = 200

\* C7 (amended): the admin view answers with status 200 only an
\* authenticated requester; every request of an unauthenticated requester is
\* redirected to the login location; every GET of an authenticated requester
\* is answered with status 200.
C7_AdminLogin ==
    resp.view = "AdminView" =>
        /\ resp.status = 200 => resp.user.is_authenticated
        /\ ~resp.user.is_authenticated =>
              (resp.status = 302 /\ resp.location = LoginUrl)
        /\ (resp.user.is_authenticated /\ resp.method = "GET") =>
              resp.status = 200

C7_Witness ==
    /\ resp.view = "AdminView"
    /\ ~resp.user.is_authenticated
    /\ resp.method = "GET"
    /\ resp.status = 302

(***************************************************************************)
(* PaymentView                                                             *)
(***************************************************************************)
\* Charges made per run of the payment model.
MaxPayments == 2

Amount == 100
Currency == "sgd"

Tokens == {NoData, Data(<<"1", "2", "3">>), Data(<<"t", "o", "k">>)}
ChargeIds == {<<"2", "3", "4">>, <<"c", "h", "_", "7">>}
ChargeOutcomes == {NoCharge} \cup {[ok |-> TRUE, id |-> i] : i \in ChargeIds}

\* 'Charge {} succeeded!'.format(id)
format(id) ==
    <<"C", "h", "a", "r", "g", "e", " ">> \o id
        \o <<" ", "s", "u", "c", "c", "e", "e", "d", "e", "d", "!">>

Email(id) ==
    [subject |-> "Payment received", message |-> format(id),
     from_email |-> "server@example.com",
     recipient_list |-> <<"admin@example.com">>]

Charge(token, id) ==
    [amount |-> Amount, currency |-> Currency, description |-> "",
     token |-> token, id |-> id]

PaymentResponse(token, charge, sent, outcome, status, location, chs, box) ==
    [Response("PaymentView", "POST", AnonymousUser, 0, NoData, outcome,
              status, location, {}, EmptyText,
              [charges |-> chs, outbox |-> box])
     EXCEPT !.env = [token |-> token, charge |-> charge, sent |-> sent]]

\* PaymentView.post: the charge, then the email, then the redirect; an
\* exception of either call leaves the handler at that point.
PaymentView_post_idempotent(token, charge, sent, chs, box) ==
    IF ~charge.ok
    THEN [resp |-> PaymentResponse(token, charge, sent, "error", 500, "",
                                   chs, box),
          charges |-> chs, outbox |-> box, ok |-> FALSE]
    ELSE IF \E i \in 1..Len(chs) : chs[i].token = token
    THEN [resp |-> PaymentResponse(token, charge, sent, "response", 302,
                                   "/", chs, box),
          charges |-> chs, outbox |-> box, ok |-> TRUE]
    ELSE IF ~sent
    THEN [resp |-> PaymentResponse(token, charge, sent, "error", 500, "",
                                   chs, box),
          charges |-> Append(chs, Charge(token, charge.id)),
          outbox |-> box, ok |-> FALSE]
    ELSE [resp |-> PaymentResponse(token, charge, sent, "response", 302,
                                   "/", chs, box),
          charges |-> Append(chs, Charge(token, charge.id)),
          outbox |-> Append(box, Email(charge.id)), ok |-> TRUE]

PaymentView_post_mail_anyway(token, charge, sent, chs, box) ==
    IF ~charge.ok
    THEN [resp |-> PaymentResponse(token, charge, sent, "error", 500, "",
                                   chs, box),
          charges |-> chs,
          outbox |-> IF sent THEN Append(box, Email(charge.id)) ELSE box,
          ok |-> FALSE]
    ELSE IF ~sent
    THEN [resp |-> PaymentResponse(token, charge, sent, "error", 500, "",
                                   chs, box),
          charges |-> Append(chs, Charge(token, charge.id)),
          outbox |-> box, ok |-> FALSE]
    ELSE [resp |-> PaymentResponse(token, charge, sent, "response", 302,
                                   "/", chs, box),
          charges |-> Append(chs, Charge(token, charge.id)),
          outbox |-> Append(box, Email(charge.id)), ok |-> TRUE]

PaymentView_post_fail_silently(token, charge, sent, chs, box) ==
    IF ~charge.ok
    THEN [resp |-> PaymentResponse(token, charge, sent, "error", 500, "",
                                   chs, box),
          charges |-> chs, outbox |-> box, ok |-> FALSE]
    ELSE [resp |-> PaymentResponse(token, charge, sent, "response", 302,
                                   "/", chs, box),
          charges |-> Append(chs, Charge(token, charge.id)),
          outbox |-> IF sent THEN Append(box, Email(charge.id)) ELSE box,
          ok |-> TRUE]

PaymentView_post(token, charge, sent, chs, box) ==
    IF ~charge.ok
    THEN [resp |-> PaymentResponse(token, charge, sent, "error", 500, "",
                                   chs, box),
          charges |-> chs, outbox |-> box, ok |-> FALSE]
    ELSE IF ~sent
    THEN [resp |-> PaymentResponse(token, charge, sent, "error", 500, "",
                                   chs, box),
          charges |-> Append(chs, Charge(token, charge.id)),
          outbox |-> box, ok |-> FALSE]
    ELSE [resp |-> PaymentResponse(token, charge, sent, "response", 302,
                                   "/", chs, box),
          charges |-> Append(chs, Charge(token, charge.id)),
          outbox |-> Append(box, Email(charge.id)), ok |-> TRUE]

InitPay ==
    /\ InitCommon
    /\ store = <<>>
    /\ raw = NoData
    /\ result = NotValidated

Payment ==
    \E token \in Tokens, charge \in ChargeOutcomes, sent \in BOOLEAN :
        LET r == PaymentView_post(token, charge, sent, charges, outbox) IN
        /\ Len(charges) < MaxPayments
        /\ resp' = r.resp
        /\ charges' = r.charges
        /\ outbox' = r.outbox
        /\ okPayments' = IF r.ok THEN okPayments + 1 ELSE okPayments
        /\ UNCHANGED <<store, reqs, raw, result>>

NextPay == Payment

SpecPay == InitPay /\ [][NextPay]_vars

IsPayment == resp.view = "PaymentView"

Contains(text, part) ==
    \E i \in 1..(Len(text) - Len(part) + 1) :
        SubSeq(text, i, i + Len(part) - 1) = part

Last(seq) == seq[Len(seq)]
Front(seq) == SubSeq(seq, 1, Len(seq) - 1)

C9_ChargeErrorPropagates ==
    /\ (IsPayment /\ ~resp.env.charge.ok) =>
          /\ resp.outcome = "error"
          /\ resp.status # 302 /\ resp.location = ""
          /\ outbox = resp.before.outbox
          /\ charges = resp.before.charges
    /\ \A i \in 1..Len(outbox) :
          \E j \in 1..Len(charges) :
              Contains(outbox[i].message, charges[j].id)

C9_Witness ==
    /\ IsPayment /\ ~resp.env.charge.ok /\ resp.env.sent
    /\ resp.outcome = "error"
    /\ Len(charges) = 1 /\ Len(outbox) = 1

\* C10 as stated: after a successful charge the response is the redirect to
\* the site root whether sending the email succeeds or fails.
C10_AsStated ==
    (IsPayment /\ resp.env.charge.ok) =>
        (resp.outcome = "response" /\ resp.status = 302 /\ resp.location = "/")

\* C10 (amended): after a successful charge the response is the redirect to
\* the site root when sending the email succeeds; when send_mail raises, the
\* error leaves PaymentView.post, no redirect is returned, no email is in
\* the outbox for it and the charge stays made.
C10_RedirectAfterMail ==
    (IsPayment /\ resp.env.charge.ok) =>
        /\ Len(charges) = Len(resp.before.charges) + 1
        /\ resp.env.sent =>
              (resp.outcome = "response" /\ resp.status = 302
               /\ resp.location = "/")
        /\ ~resp.env.sent =>
              (resp.outcome = "error" /\ resp.status # 302
               /\ resp.location = "" /\ outbox = resp.before.outbox)

C10_Witness ==
    /\ IsPayment /\ resp.env.charge.ok /\ ~resp.env.sent
    /\ resp.outcome = "error"
    /\ Len(charges) = Len(outbox) + 1

(***************************************************************************)
(* Update requests handled concurrently                                    *)
(***************************************************************************)
\* Each worker handles one request at a time; the steps of two workers
\* interleave, and the table is read and written one statement at a time.
Workers == {"w1", "w2"}

Idle == [pc |-> "idle", method |-> "", user |-> AnonymousUser, pk |-> 0,
         data |-> NoData, cleaned |-> EmptyText, status |-> 0]

InitConc ==
    /\ resp = NoResponse
    /\ charges = <<>>
    /\ outbox = <<>>
    /\ okPayments = 0
    /\ raw = NoData
    /\ result = NotValidated
    /\ store \in [ExistingPks -> Seeds]
    /\ reqs = [w \in Workers |-> Idle]

Finish(w, status) ==
    reqs' = [reqs EXCEPT ![w].pc = "done", ![w].status = status]

\* The request reaches as_view().
Receive(w) ==
    /\ reqs[w].pc = "idle"
    /\ \E user \in Users, pk \in Pks, data \in PostData,
          method \in Methods :
          /\ method = "GET" => data = NoData
          /\ reqs' = [reqs EXCEPT ![w] =
                 [pc |-> "dispatch", method |-> method, user |-> user,
                  pk |-> pk, data |-> data, cleaned |-> EmptyText,
                  status |-> 0]]
    /\ UNCHANGED <<store, resp, charges, outbox, okPayments, raw, result>>

\* PostUpdateView.post up to get_object, or UpdateView.get.
Dispatch(w) ==
    /\ reqs[w].pc = "dispatch"
    /\ IF reqs[w].method = "POST" /\ first_name_is_Martin(reqs[w].user)
       THEN Finish(w, 404)
       ELSE IF reqs[w].pk \notin DOMAIN store
       THEN Finish(w, 404)
       ELSE IF reqs[w].method = "GET"
       THEN Finish(w, 200)
       ELSE reqs' = [reqs EXCEPT ![w].pc = "form"]
    /\ UNCHANGED <<store, resp, charges, outbox, okPayments, raw, result>>

\* form.is_valid(), then form_invalid or the way to form_valid.
Validate(w) ==
    /\ reqs[w].pc = "form"
    /\ LET form == full_clean(reqs[w].data) IN
       IF form.valid
       THEN reqs' = [reqs EXCEPT ![w].pc = "save",
                                 ![w].cleaned = form.cleaned]
       ELSE Finish(w, 200)
    /\ UNCHANGED <<store, resp, charges, outbox, okPayments, raw, result>>

\* form.save(): the row's body is overwritten; then the redirect.
Save(w) ==
    /\ reqs[w].pc = "save"
    /\ store' = [store EXCEPT ![reqs[w].pk] = reqs[w].cleaned]
    /\ Finish(w, 302)
    /\ UNCHANGED <<resp, charges, outbox, okPayments, raw, result>>

\* The response is handed back and the worker is free again.
Respond(w) ==
    /\ reqs[w].pc = "done"
    /\ reqs' = [reqs EXCEPT ![w] = Idle]
    /\ UNCHANGED <<store, resp, charges, outbox, okPayments, raw, result>>

NextConc ==
    \E w \in Workers :
        Receive(w) \/ Dispatch(w) \/ Validate(w) \/ Save(w) \/ Respond(w)

SpecConc == InitConc /\ [][NextConc]_vars

\* Worker w completes, in this step, a submit of a requester not named
\* "Martin" that writes body as the body of Post p.
Writes(w, p, body) ==
    /\ reqs[w].pc = "save" /\ reqs'[w].pc = "done" /\ reqs'[w].status = 302
    /\ reqs[w].method = "POST"
    /\ ~NamedMartin(reqs[w].user)
    /\ reqs[w].pk = p
    /\ store'[p] = body

\* C8 as stated: a stored body only ever changes to a body of length > 5
\* that a requester not named "Martin" submitted for that Post.
C8_AsStated ==
    [][\A p \in ExistingPks :
          store'[p] # store[p] =>
              \E w \in Workers :
                  /\ Writes(w, p, reqs[w].data.body)
                  /\ Len(store'[p]) > 5]_vars

\* C8 (amended): under any interleaving of update requests a stored body
\* only ever changes, as a whole, to the body submitted for that Post by a
\* requester not named "Martin" without its leading and trailing whitespace,
\* and that value is longer than 5 characters; so every stored body is its
\* seed value or such a value, and of concurrent accepted submits to one
\* Post the last write stays.
C8_StoredBodies ==
    [][\A p \in ExistingPks :
          store'[p] # store[p] =>
              \E w \in Workers :
                  /\ \E b \in Bodies :
                        /\ reqs[w].data = Data(b)
                        /\ IsTrimOf(store'[p], b)
                        /\ Writes(w, p, store'[p])
                  /\ Len(store'[p]) > 5
                  /\ \A q \in ExistingPks \ {p} : store'[q] = store[q]]_vars

\* Two accepted submits to one Post are in flight; one has written and the
\* other is about to overwrite it with a different body.
C8_Witness ==
    \E w, v \in Workers :
        /\ reqs[w].pc = "done" /\ reqs[w].status = 302
        /\ reqs[v].pc = "save"
        /\ reqs[w].pk = reqs[v].pk
        /\ reqs[w].cleaned # reqs[v].cleaned
        /\ store[reqs[w].pk] = reqs[w].cleaned

====
